---- MODULE Spec2Model ----
(***************************************************************************)
(* Contrastive Explanation Method (src/cem.py): the constructor, the FISTA *)
(* search of fista() with its outer restarts, shrink(), optimisation_obj() *)
(* and loss_fn().                                                          *)
(*                                                                         *)
(* Numbers are exact rationals <<numerator, denominator>> in lowest terms  *)
(* with a positive denominator; <<0, 0>> is the float NaN and <<1, 0>> is  *)
(* float("Inf").  Tensors are sequences of such numbers.  The classifier   *)
(* and the autoencoder are capabilities passed to the constructor; they    *)
(* are drawn from a small family of one-hidden-unit networks.              *)
(***************************************************************************)
EXTENDS Integers, Sequences, FiniteSets

\* ---------------------------------------------------------------- bounds
\* Length of the flattened sample (28*28 in the source).
Dim == 2
\* self.iterations and self.n_searches of the modelled instance.
Iterations == 2
NSearches == 3
\* shrink() is exercised on entries k/2 with -MaxZ <= k <= MaxZ.
MaxZ == 4

\* ------------------------------------------------------- float arithmetic
\* Every operator names the values of its operands (a \in {a0}) before it uses
\* them, so that an operand is computed once however often it is read.
NaN == <<0, 0>>
Inf == <<1, 0>>

\* The one element of a singleton.
Only(S) == CHOOSE r \in S : TRUE

Abs(n) == IF n < 0 THEN -n ELSE n

RECURSIVE Gcd(_, _)
Gcd(a, b) == IF b = 0 THEN a ELSE Gcd(b, a % b)

\* n/d in lowest terms, d # 0.
Rat(n, d) ==
    Only({ << (sg * n) \div g, (sg * d) \div g >> :
             g \in { Gcd(Abs(n), Abs(d)) }, sg \in { IF d < 0 THEN -1 ELSE 1 } })

Num(n) == << n, 1 >>

IsFinite(a) == a[2] # 0

\* The sum over the least common denominator.
RAdd(a0, b0) ==
    Only({ IF IsFinite(a) /\ IsFinite(b)
           THEN Only({ Rat(a[1] * (b[2] \div g) + b[1] * (a[2] \div g),
                           (a[2] \div g) * b[2]) : g \in { Gcd(a[2], b[2]) } })
           ELSE NaN : a \in { a0 }, b \in { b0 } })

RNeg(a0) == Only({ IF IsFinite(a) THEN << -a[1], a[2] >> ELSE NaN : a \in { a0 } })

RSub(a0, b0) == RAdd(a0, RNeg(b0))

\* The product, its factors reduced crosswise first.
RMul(a0, b0) ==
    Only({ IF IsFinite(a) /\ IsFinite(b)
           THEN Only({ Rat((a[1] \div g1) * (b[1] \div g2),
                           (a[2] \div g2) * (b[2] \div g1)) :
                         g1 \in { Gcd(Abs(a[1]), b[2]) },
                         g2 \in { Gcd(Abs(b[1]), a[2]) } })
           ELSE NaN : a \in { a0 }, b \in { b0 } })

\* a / b; 0/0 is NaN.  A finite non-zero a over 0 does not occur.
RDiv(a0, b0) ==
    Only({ IF IsFinite(a) /\ IsFinite(b) /\ b[1] # 0
           THEN RMul(a, Rat(b[2], b[1]))
           ELSE NaN : a \in { a0 }, b \in { b0 } })

RAbs(a0) == Only({ IF IsFinite(a) THEN << Abs(a[1]), a[2] >> ELSE NaN : a \in { a0 } })

\* a < b as floats compare: false when either side is NaN.
RLt(a0, b0) ==
    \E a \in { a0 }, b \in { b0 } :
        IF a = NaN \/ b = NaN THEN FALSE
        ELSE IF a = Inf THEN FALSE
        ELSE IF b = Inf THEN TRUE
        ELSE \E g \in { Gcd(a[2], b[2]) } :
                 a[1] * (b[2] \div g) < b[1] * (a[2] \div g)

\* a == b as floats compare: NaN equals nothing.
REq(a0, b0) == \E a \in { a0 }, b \in { b0 } : a # NaN /\ b # NaN /\ a = b

RLe(a0, b0) == \E a \in { a0 }, b \in { b0 } : RLt(a, b) \/ REq(a, b)

\* torch.max(a, b) of two tensors: NaN propagates.
RMax(a0, b0) ==
    Only({ IF a = NaN \/ b = NaN THEN NaN
           ELSE IF RLt(a, b) THEN b ELSE a : a \in { a0 }, b \in { b0 } })

\* torch.sign, the derivative of torch.abs.
RSign(a0) ==
    Only({ IF ~IsFinite(a) THEN Num(0)
           ELSE IF a[1] > 0 THEN Num(1)
           ELSE IF a[1] < 0 THEN Num(-1) ELSE Num(0) : a \in { a0 } })

\* --------------------------------------------------------------- tensors
\* A tensor is held as a tuple of its entries.
Tensor(f) == f \o <<>>

RECURSIVE RSum(_)
RSum(v0) ==
    Only({ IF v = <<>> THEN Num(0) ELSE RAdd(v[1], RSum(Tail(v))) : v \in { v0 } })

\* torch.max(t) of one tensor: NaN if any entry is NaN.
RECURSIVE MaxAll(_)
MaxAll(v0) ==
    Only({ IF Len(v) = 1 THEN v[1] ELSE RMax(v[1], MaxAll(Tail(v))) :
             v \in { v0 } })

Zeros == Tensor([k \in 1..Dim |-> Num(0)])
Ones == Tensor([k \in 1..Dim |-> Num(1)])

VAdd(u0, v0) ==
    Only({ Tensor([k \in 1..Len(u) |-> RAdd(u[k], v[k])]) : u \in { u0 }, v \in { v0 } })
VSub(u0, v0) ==
    Only({ Tensor([k \in 1..Len(u) |-> RSub(u[k], v[k])]) : u \in { u0 }, v \in { v0 } })
VScale(r0, v0) ==
    Only({ Tensor([k \in 1..Len(v) |-> RMul(r, v[k])]) : r \in { r0 }, v \in { v0 } })
Dot(u0, v0) ==
    Only({ RSum(Tensor([k \in 1..Len(u) |-> RMul(u[k], v[k])])) :
             u \in { u0 }, v \in { v0 } })
\* torch.norm(v) ** 2
NormSq(v0) == Only({ Dot(v, v) : v \in { v0 } })

\* ------------------------------------------------------------------ state
VARIABLES
    pc,                \* "new", "ready", "search", "iter", "done", "raised";
                       \* "z" and "shrunk" for a bare call of shrink()
    error,             \* the exception that ended the call, "none" if none
    classifier,        \* constructor arguments and the fields set from them
    autoencoder,
    kappa,
    c_init,
    c,
    beta,
    gamma,
    learning_rate,
    iterations,
    n_searches,
    mode,              \* arguments of fista()
    orig_sample,
    loss_reached_zero, \* fields and locals of fista()
    best_delta,        \* <<>> is None
    best_loss,
    prev_delta,        \* self.prev_deltas[-1], the one entry of the list ever read
    pert_space,
    s,
    i,
    delta,
    y,
    loss,
    used_autoencoder,  \* whether the last optimisation_obj() added the autoencoder term
    z,                 \* argument and value of the last shrink()
    z_shrunk,
    result,            \* what fista() returned: <<>> is None
    reached_now,       \* history: loss_fn set the flag during the current search
    outcomes,          \* history: reached_now at the end of each search
    c_after,           \* history: self.c at the end of each search
    seen_min           \* history: the first least objective value evaluated in
                       \* the call and the delta current then; <<>> if none

vars == << pc, error, classifier, autoencoder, kappa, c_init, c, beta, gamma,
           learning_rate, iterations, n_searches, mode, orig_sample,
           loss_reached_zero, best_delta, best_loss, prev_delta, pert_space,
           s, i, delta, y, loss, used_autoencoder, z, z_shrunk, result,
           reached_now, outcomes, c_after, seen_min >>

\* The constructor's arguments and the fields that only it assigns.
config == << classifier, autoencoder, kappa, c_init, beta, gamma, learning_rate,
             iterations, n_searches >>

\* ----------------------------------------------------------------- shrink
\* shrink() with z_min and z_plus exchanged.
ShrinkEntrySwapped(e, b) ==
    Only({ IF RLt(e, RNeg(b)) THEN z_plus
           ELSE IF RLt(b, e) THEN z_min
           ELSE IF RLe(RAbs(e), b) THEN Num(0) ELSE e :
             z_min \in { RAdd(e, b) }, z_plus \in { RSub(e, b) } })

\* shrink() on one entry.  The three torch.where calls run in their order, so
\* the last one whose condition holds decides.
ShrinkEntry(e, b) ==
    Only({ IF RLt(e, RNeg(b)) THEN z_plus
           ELSE IF RLt(b, e) THEN z_min
           ELSE IF RLe(RAbs(e), b) THEN Num(0) ELSE e :
             z_min \in { RSub(e, b) }, z_plus \in { RAdd(e, b) } })

shrink(v0, b0) ==
    Only({ Tensor([k \in 1..Len(v) |-> ShrinkEntry(v[k], b)]) :
             v \in { v0 }, b \in { b0 } })

\* ------------------------------------------------------------ capabilities
\* A classifier is a one-hidden-unit network: scores = v * gate * (w . x) + b,
\* where gate is 1, or, with a dropout layer in training mode (the constructor
\* calls classifier.train()), 0 (unit dropped) or 2 (unit kept, rescaled).
Gates(cl) == IF cl.dropout THEN {0, 2} ELSE {1}

Scores(cl, x0, gate) ==
    Only({ Tensor([j \in 1..Len(cl.b) |-> RAdd(RMul(cl.v[j], h), cl.b[j])]) :
             h \in { RMul(Num(gate), Dot(cl.w, x0)) } })

\* torch.argmax: the first index of the maximum.
Argmax(out) ==
    CHOOSE j \in 1..Len(out) :
        /\ \A k \in 1..Len(out) : ~RLt(out[j], out[k])
        /\ \A k \in 1..(j - 1) : RLt(out[k], out[j])

\* The autoencoder, when there is one, halves its input.
AutoencoderGain == Rat(1, 2)
Autoencoder(v) == VScale(AutoencoderGain, v)

\* callable(self.autoencoder)
Callable(ae) == ae # "None"

\* ---------------------------------------------------------------- loss_fn
\* The share of the gradient of torch.max(t) that entry j of t receives: the
\* entries equal to the maximum share it evenly.
MaxShare(t, j) ==
    Only({ IF m = NaN THEN NaN
           ELSE IF REq(t[j], m)
                THEN Rat(1, Cardinality({ k \in 1..Len(t) : REq(t[k], m) }))
                ELSE Num(0) : m \in { MaxAll(t) } })

\* The flag test against kappa instead of -kappa.
ReachedAtKappa(l, kap) == REq(l, kap)

\* if perturbation_loss.item() == -self.kappa
Reached(l, kap) == REq(l, RNeg(kap))

\* torch.max(margin, min_kappa), its derivative with respect to pert_output
\* carried to y, and the flag test.  dmargin[j] is d margin / d pert_output[j];
\* d pert_output[j] / d y is v[j] * gate * w; torch.max halves the derivative
\* at a tie.
ClampedLoss(cl, kap, g2, margin, dmargin) ==
    Only({ [ loss |-> perturbation_loss,
             grad |-> VScale(RMul(dloss, RMul(Num(g2), Dot(dmargin, cl.v))), cl.w),
             reached |-> Reached(perturbation_loss, kap) ] :
             perturbation_loss \in { RMax(margin, RNeg(kap)) },
             dloss \in { IF margin = NaN THEN NaN
                         ELSE IF RLt(RNeg(kap), margin) THEN Num(1)
                         ELSE IF REq(margin, RNeg(kap)) THEN Rat(1, 2)
                         ELSE Num(0) } })

\* The margin of the masked outputs tgt = target_mask * pert_output and
\* non = nontarget_mask * pert_output, by mode.
MaskedLoss(cl, md, kap, g2, target_mask, tgt, non) ==
    Only({ ClampedLoss(cl, kap, g2, margin, dmargin) :
             margin \in { IF md = "PN"
                          THEN RSub(MaxAll(tgt), MaxAll(non))
                          ELSE RSub(MaxAll(non), MaxAll(tgt)) },
             dmargin \in { Tensor([j \in 1..Len(tgt) |->
                 Only({ IF md = "PN" THEN RSub(dt, dn) ELSE RSub(dn, dt) :
                          dt \in { RMul(target_mask[j], MaxShare(tgt, j)) },
                          dn \in { RMul(RSub(Num(1), target_mask[j]),
                                        MaxShare(non, j)) } })]) } })

\* The masks from the classifier's output on the original sample, applied to
\* its output on the perturbed input.
TargetLoss(cl, md, kap, g2, orig_output, pert_output) ==
    Only({ MaskedLoss(cl, md, kap, g2, target_mask,
                      Tensor([j \in 1..Len(pert_output) |->
                          RMul(target_mask[j], pert_output[j])]),
                      Tensor([j \in 1..Len(pert_output) |->
                          RMul(RSub(Num(1), target_mask[j]), pert_output[j])])) :
             target_mask \in { Only({
                 Tensor([j \in 1..Len(orig_output) |->
                     IF j = target THEN Num(1) ELSE Num(0)]) :
                 target \in { Argmax(orig_output) } }) } })

\* loss_fn(orig_sample, y): the loss, its gradient with respect to y and the
\* flag test, for the dropout gates g1 and g2 of its two forward passes.
LossFn(cl, md, kap, x, yy, g1, g2) ==
    Only({ TargetLoss(cl, md, kap, g2, orig_output, pert_output) :
             orig_output \in { Scores(cl, x, g1) },
             pert_output \in { Scores(cl, IF md = "PN" THEN VAdd(x, yy) ELSE yy,
                                      g2) } })

\* ------------------------------------------------------- optimisation_obj
\* The residual the autoencoder term takes the norm of.
Residual(md, x, yy) ==
    Only({ VSub(inp, Autoencoder(inp)) :
             inp \in { IF md = "PN" THEN VAdd(x, yy) ELSE yy } })

\* The sum of the objective's terms and of their gradients, given what loss_fn
\* returned (lf) and the autoencoder's residual (r).
ObjectiveTerms(ae, cc, b, gam, yy, lf, r) ==
    Only({ [ obj |-> IF Callable(ae) THEN RAdd(base, RMul(gam, NormSq(r)))
                     ELSE base,
             grad |-> IF Callable(ae)
                      THEN VAdd(gbase,
                                VScale(RMul(gam, RMul(Num(2),
                                                 RSub(Num(1), AutoencoderGain))),
                                       r))
                      ELSE gbase,
             reached |-> lf.reached,
             with_autoencoder |-> Callable(ae) ] :
             base \in { RAdd(RAdd(RMul(cc, lf.loss),
                                  RMul(b, RSum(Tensor([k \in 1..Len(yy) |->
                                                          RAbs(yy[k])])))),
                             NormSq(yy)) },
             gbase \in { VAdd(VAdd(VScale(cc, lf.grad),
                                   VScale(b, Tensor([k \in 1..Len(yy) |->
                                                        RSign(yy[k])]))),
                              VScale(Num(2), yy)) } })

\* optimisation_obj(orig_sample, y): the objective, its gradient with respect
\* to y, and what loss_fn did.
OptimisationObj(cl, ae, md, kap, cc, b, gam, x, yy, g1, g2) ==
    Only({ ObjectiveTerms(ae, cc, b, gam, yy, lf, r) :
             lf \in { LossFn(cl, md, kap, x, yy, g1, g2) },
             r \in { Residual(md, x, yy) } })

\* -------------------------------------------------------------- projection
\* self.pert_space is dir / sqrt(nsq); the division by torch.norm is kept
\* symbolic, so that dot(v) * pert_space = ((dir . v) / nsq) * dir is exact.
\* A zero norm divides 0 by 0 in every entry: the tensor is all NaN.
Normalised(u0) == Only({ [ dir |-> u, nsq |-> NormSq(u) ] : u \in { u0 } })

PreNorm(md, x) == IF md = "PN" THEN VSub(Ones, x) ELSE x

\* self.pert_space.dot(v) * self.pert_space
Project(ps, v) == VScale(RDiv(Dot(ps.dir, v), ps.nsq), ps.dir)

\* ------------------------------------------------------------------ inputs
UnitWeights == Tensor([k \in 1..Dim |-> IF k = 1 THEN Num(1) ELSE Num(0)])

\* Class 1 scores 1 - h and class 2 scores h, h the first entry of the input.
LinearClassifier ==
    [ w |-> UnitWeights, v |-> << Num(-1), Num(1) >>,
      b |-> << Num(1), Num(0) >>, dropout |-> FALSE ]

\* The same network with a dropout layer on its hidden unit.
DropoutClassifier == [ LinearClassifier EXCEPT !.dropout = TRUE ]

\* The same scores for every input.
ConstantClassifier(bias) ==
    [ w |-> UnitWeights, v |-> << Num(0), Num(0) >>, b |-> bias, dropout |-> FALSE ]

DeterministicClassifiers ==
    { LinearClassifier,
      ConstantClassifier(<< Num(2), Num(1) >>),
      ConstantClassifier(<< Num(-1), Num(-2) >>),
      ConstantClassifier(<< Num(1), Num(1) >>) }

Autoencoders == { "None", "Halve" }
KappaSet == { Num(0), Num(1) }
ConstSet == { Num(2) }
BetaSet == { Num(0), Rat(1, 2) }
ShrinkBetaSet == BetaSet \cup { Num(-1), Num(1) }
GammaSet == { Num(0), Num(1) }
LearningRates == { Rat(1, 2) }
Modes == { "PN", "PP", "XX" }
Samples == [1..Dim -> { Num(0), Num(1) }]
ZEntries == { Rat(k, 2) : k \in (-MaxZ)..MaxZ }

NoProjection == [ dir |-> <<>>, nsq |-> NaN ]

\* ------------------------------------------------------------------- Init
\* Nothing has been called yet.
NotCalled ==
    /\ error = "none"
    /\ mode = "unset"
    /\ orig_sample = <<>>
    /\ loss_reached_zero = FALSE
    /\ best_delta = <<>>
    /\ best_loss = Inf
    /\ prev_delta = <<>>
    /\ pert_space = NoProjection
    /\ s = 0
    /\ i = 0
    /\ delta = <<>>
    /\ y = <<>>
    /\ loss = NaN
    /\ used_autoencoder = FALSE
    /\ result = <<>>
    /\ reached_now = FALSE
    /\ outcomes = <<>>
    /\ c_after = <<>>
    /\ seen_min = <<>>

\* The arguments of a constructor call about to run.  The classifier with
\* dropout is tried with one setting of kappa, beta and gamma.
Init ==
    /\ pc = "new"
    /\ \/ /\ classifier \in DeterministicClassifiers
          /\ kappa \in KappaSet
          /\ beta \in BetaSet
          /\ gamma \in GammaSet
       \/ /\ classifier = DropoutClassifier
          /\ kappa = Num(0)
          /\ beta = Rat(1, 2)
          /\ gamma = Num(0)
    /\ autoencoder \in Autoencoders
    /\ c_init \in ConstSet
    /\ c = NaN
    /\ learning_rate \in LearningRates
    /\ iterations = Iterations
    /\ n_searches = NSearches
    /\ z = <<>>
    /\ z_shrunk = <<>>
    /\ NotCalled

\* ---------------------------------------------------------------- actions
\* The fields and locals of a fista() call, and its history.
search == << loss_reached_zero, best_delta, best_loss, prev_delta, s, i, delta, y,
             loss, used_autoencoder, z, z_shrunk >>
history == << reached_now, outcomes, c_after, seen_min >>

\* __init__: classifier.train(); autoencoder.train(); then the fields.
Construct ==
    /\ pc = "new"
    /\ IF autoencoder = "None"
       THEN /\ pc' = "raised"
            /\ error' = "AttributeError"
            /\ c' = c
       ELSE /\ pc' = "ready"
            /\ error' = error
            /\ c' = c_init
    /\ UNCHANGED << config, mode, orig_sample, pert_space, search, result,
                    history >>

\* fista(orig_sample, mode) up to the outer loop.
FistaBegin ==
    /\ pc = "ready"
    /\ \E md \in Modes, x \in Samples :
        /\ mode' = md
        /\ orig_sample' = x
        /\ pert_space' = IF md \in { "PN", "PP" }
                         THEN Normalised(PreNorm(md, x))
                         ELSE pert_space
    /\ loss_reached_zero' = FALSE
    /\ best_delta' = <<>>
    /\ best_loss' = Inf
    /\ prev_delta' = <<>>
    /\ s' = 0
    /\ pc' = "search"
    /\ UNCHANGED << config, error, c, i, delta, y, loss, used_autoencoder, z,
                    z_shrunk, result, history >>

\* A search that starts from the c the previous search left.
SearchConstKept(cinit, cprev) == cprev

\* self.c at the start of a search, from self.c_init and its value so far.
SearchConst(cinit, cprev) == cinit

\* The head of one pass of the outer loop.
SearchBegin ==
    /\ pc = "search"
    /\ s < n_searches
    /\ c' = SearchConst(c_init, c)
    /\ delta' = Zeros
    /\ y' = Zeros
    /\ i' = 1
    /\ pc' = "iter"
    /\ reached_now' = FALSE
    /\ UNCHANGED << config, error, mode, orig_sample, loss_reached_zero,
                    best_delta, best_loss, prev_delta, pert_space, s, loss,
                    used_autoencoder, z, z_shrunk, result, outcomes, c_after,
                    seen_min >>

\* The comparison of the best-so-far test turned round.
ImprovesWrongWay(obj, best) == RLt(best, obj)

\* if obj < self.best_loss
Improves(obj, best) == RLt(obj, best)

\* The momentum coefficient counted from 0.
MomentumZeroBased(ii) == Rat(ii - 1, ii + 2)

\* The momentum coefficient of iteration ii.
Momentum(ii) == Rat(ii, ii + 3)

\* The new slack variable y from the new delta and the delta before it.
SlackStep(ps, ii, d, o, step, shrunk, delta_new) ==
    [ obj |-> o.obj, reached |-> o.reached,
      with_autoencoder |-> o.with_autoencoder,
      z |-> step, z_shrunk |-> shrunk,
      delta |-> delta_new,
      y |-> Project(ps, VAdd(delta_new,
                             VScale(Momentum(ii), VSub(delta_new, d)))) ]

\* The new delta: the shrunk gradient step, projected.
DeltaStep(b, ps, ii, d, o, step) ==
    Only({ Only({ SlackStep(ps, ii, d, o, step, shrunk, delta_new) :
                    delta_new \in { Project(ps, shrunk) } }) :
             shrunk \in { shrink(step, b) } })

\* What one pass of the inner loop computes from the state it starts in.
InnerPass(cl, ae, md, kap, cc, b, gam, lr, x, ps, ii, d, yy, g1, g2) ==
    Only({ Only({ DeltaStep(b, ps, ii, d, o, step) :
                    step \in { VSub(yy, VScale(lr, o.grad)) } }) :
             o \in { OptimisationObj(cl, ae, md, kap, cc, b, gam, x, yy, g1, g2) } })

\* One pass of the inner loop.
Iterate ==
    /\ pc = "iter"
    /\ i <= iterations
    /\ mode \in { "PN", "PP" }
    /\ \E g1 \in Gates(classifier), g2 \in Gates(classifier) :
       \E r \in { InnerPass(classifier, autoencoder, mode, kappa, c, beta, gamma,
                            learning_rate, orig_sample, pert_space, i, delta, y,
                            g1, g2) } :
       \E better \in { Improves(r.obj, best_loss) } :
            /\ loss_reached_zero' = (loss_reached_zero \/ r.reached)
            /\ loss' = r.obj
            /\ used_autoencoder' = r.with_autoencoder
            /\ best_delta' = IF better THEN delta ELSE best_delta
            /\ best_loss' = IF better THEN r.obj ELSE best_loss
            /\ prev_delta' = delta
            /\ z' = r.z
            /\ z_shrunk' = r.z_shrunk
            /\ delta' = r.delta
            /\ y' = r.y
            /\ reached_now' = (reached_now \/ r.reached)
            /\ seen_min' = IF r.obj = NaN THEN seen_min
                           ELSE IF seen_min = <<>> THEN << r.obj, delta >>
                           ELSE IF RLt(r.obj, seen_min[1]) THEN << r.obj, delta >>
                           ELSE seen_min
    /\ i' = i + 1
    /\ UNCHANGED << pc, config, error, c, mode, orig_sample, pert_space, s,
                    result, outcomes, c_after >>

\* A mode that is neither "PN" nor "PP": loss_fn reads perturbation_loss,
\* which no branch has assigned.
IterateUnbound ==
    /\ pc = "iter"
    /\ i <= iterations
    /\ mode \notin { "PN", "PP" }
    /\ pc' = "raised"
    /\ error' = "UnboundLocalError"
    /\ UNCHANGED << config, c, mode, orig_sample, pert_space, search, result,
                    history >>

\* The tail of one pass of the outer loop.
SearchEnd ==
    /\ pc = "iter"
    /\ i > iterations
    /\ \E c_new \in { IF loss_reached_zero
                       THEN RDiv(RAdd(c, c_init), Num(2))
                       ELSE RMul(c, Num(10)) } :
           /\ c' = c_new
           /\ c_after' = Append(c_after, c_new)
    /\ outcomes' = Append(outcomes, reached_now)
    /\ s' = s + 1
    /\ pc' = "search"
    /\ UNCHANGED << config, error, mode, orig_sample, loss_reached_zero,
                    best_delta, best_loss, prev_delta, pert_space, i, delta, y,
                    loss, used_autoencoder, z, z_shrunk, result, reached_now,
                    seen_min >>

\* The outer loop is over: fista() has no return statement.
Return ==
    /\ pc = "search"
    /\ s = n_searches
    /\ pc' = "done"
    /\ result' = <<>>
    /\ UNCHANGED << config, error, c, mode, orig_sample, pert_space, search,
                    history >>

Next ==
    \/ Construct
    \/ FistaBegin
    \/ SearchBegin
    \/ Iterate
    \/ IterateUnbound
    \/ SearchEnd
    \/ Return

Spec == Init /\ [][Next]_vars

\* ------------------------------------------------------- shrink() on its own
\* An instance with threshold self.beta and a tensor about to be shrunk.
ShrinkInit ==
    /\ pc = "z"
    /\ classifier = LinearClassifier
    /\ autoencoder = "Halve"
    /\ kappa = Num(0)
    /\ c_init = Num(2)
    /\ c = Num(2)
    /\ beta \in ShrinkBetaSet
    /\ gamma = Num(0)
    /\ learning_rate = Rat(1, 2)
    /\ iterations = Iterations
    /\ n_searches = NSearches
    /\ z \in [1..Dim -> ZEntries]
    /\ z_shrunk = <<>>
    /\ NotCalled

ShrinkCall ==
    /\ pc = "z"
    /\ z_shrunk' = shrink(z, beta)
    /\ pc' = "shrunk"
    /\ UNCHANGED << config, error, c, mode, orig_sample, loss_reached_zero,
                    best_delta, best_loss, prev_delta, pert_space, s, i, delta,
                    y, loss, used_autoencoder, z, result, history >>

ShrinkNext == ShrinkCall

SpecShrink == ShrinkInit /\ [][ShrinkNext]_vars

\* ================================================================= claims
Called == pc \in { "search", "iter", "done" }
ValidMode == mode \in { "PN", "PP" }
Deterministic == ~classifier.dropout

C2_NoAutoencoderIsValid ==
    autoencoder = "None" => (error = "none" /\ ~used_autoencoder)

\* ---------------------------------------------------------------------- C3
UnitNorm(ps) == IsFinite(ps.nsq) /\ ps.nsq[1] # 0 /\ REq(NormSq(ps.dir), ps.nsq)

\* C3: a sample whose pre-normalisation vector has zero norm makes the call
\* fail with DegenerateInputError before any search iteration; for every other
\* sample the projection vector has unit norm.
C3_DegenerateRejected ==
    (pc \in { "search", "iter", "done", "raised" } /\ ValidMode) =>
        IF NormSq(PreNorm(mode, orig_sample)) = Num(0)
        THEN pc = "raised" /\ error = "DegenerateInputError" /\ i = 0
        ELSE UnitNorm(pert_space)

\* ---------------------------------------------------------------------- C4
\* C4: when the first three restarts of a call end success, failure, success,
\* self.c after them is c_init, 10 * c_init and 5.5 * c_init.
C4_Schedule ==
    (Len(outcomes) >= 3 /\ SubSeq(outcomes, 1, 3) = << TRUE, FALSE, TRUE >>) =>
        /\ c_after[1] = c_init
        /\ c_after[2] = RMul(Num(10), c_init)
        /\ c_after[3] = RMul(Rat(11, 2), c_init)

\* ---------------------------------------------------------------------- C5
\* The classifier gives every input the same scores.
IsConstant(cl) == \A j \in 1..Len(cl.v) : cl.v[j] = Num(0)

\* The margin loss_fn computes in PN mode from a constant score vector: each
\* masked maximum runs over the class's score and the zeros of the mask.
ClampedMargin(scores) ==
    LET t == Argmax(scores)
        others == { scores[j] : j \in (1..Len(scores)) \ { t } }
        pos(a) == IF RLt(a, Num(0)) THEN Num(0) ELSE a
        top == CHOOSE a \in others \cup { Num(0) } :
                   \A o \in others \cup { Num(0) } : ~RLt(a, o)
    IN  RSub(pos(scores[t]), top)

\* C5 (as claimed): in PN mode with a constant classifier the margin-reached
\* flag is never set.
C5_NeverReached ==
    (Called /\ mode = "PN" /\ IsConstant(classifier)) => ~loss_reached_zero

\* C5 (amended): in PN mode with a constant classifier the flag is never set
\* provided the margin of the constant scores, max(s_target, 0) minus the
\* larger of 0 and the other scores, is strictly greater than -kappa.
C5_NeverReachedAboveFloor ==
    ( /\ Called
      /\ mode = "PN"
      /\ IsConstant(classifier)
      /\ RLt(RNeg(kappa), ClampedMargin(classifier.b)) ) => ~loss_reached_zero

C5_Witness ==
    /\ pc = "done"
    /\ mode = "PN"
    /\ IsConstant(classifier)
    /\ RLt(RNeg(kappa), ClampedMargin(classifier.b))
    /\ seen_min # <<>>

\* ---------------------------------------------------------------------- C6
ShrinkLaw(e, out, b) ==
    /\ RLe(RAbs(out), RAbs(e))
    /\ RLe(RAbs(e), b) => out = Num(0)
    /\ ~RLe(RAbs(e), b) =>
          /\ RLt(b, e) => out = RSub(e, b)
          /\ RLt(e, RNeg(b)) => out = RAdd(e, b)

\* C6 (as claimed): for every z and the configured beta, |shrink(z)| <= |z|,
\* shrink(z) = 0 when |z| <= beta, and otherwise shrink(z) is z - beta when
\* z > beta and z + beta when z < -beta.
C6_ShrinkLaw ==
    pc = "shrunk" =>
        \A k \in 1..Len(z) : ShrinkLaw(z[k], z_shrunk[k], beta)

\* C6 (amended): the same, for every z and every configured beta >= 0.
C6_ShrinkLawNonNegativeBeta ==
    (pc = "shrunk" /\ RLe(Num(0), beta)) =>
        \A k \in 1..Len(z) : ShrinkLaw(z[k], z_shrunk[k], beta)

C6_Witness ==
    /\ pc = "shrunk"
    /\ RLt(Num(0), beta)
    /\ \E k \in 1..Len(z) : z[k] # Num(0) /\ RLe(RAbs(z[k]), beta)
    /\ \E k \in 1..Len(z) : RLt(z[k], RNeg(beta)) /\ z_shrunk[k] # Num(0)

\* ---------------------------------------------------------------------- C7
\* C7: the flag is cleared before each restart, so the update of c after a
\* restart depends only on the loss evaluations of that restart.
C7_FlagClearedPerRestart ==
    /\ pc = "iter" => (loss_reached_zero = reached_now)
    /\ \A k \in 1..Len(c_after) :
          c_after[k] = IF outcomes[k]
                       THEN RDiv(RAdd(c_init, c_init), Num(2))
                       ELSE RMul(c_init, Num(10))

\* ---------------------------------------------------------------------- C8
\* The momentum update with coefficient coef, as a relation between the
\* values one pass of the inner loop leaves.
MomentumUpdate(coef) ==
    y = Project(pert_space, VAdd(delta, VScale(coef, VSub(delta, prev_delta))))

\* C8 (as claimed): the pass that has just run, the (i-1)-th of its restart,
\* applied the coefficient step / (step + 3) with step = i - 2, counted from 0;
\* delta_prev is zero on the first pass of every restart, which therefore
\* applies the coefficient 0.
C8_MomentumFromZero ==
    (pc = "iter" /\ i > 1 /\ ValidMode) =>
        /\ MomentumUpdate(Rat(i - 2, i + 1))
        /\ i = 2 => prev_delta = Zeros

\* C8 (amended): the coefficient is k / (k + 3) for the k-th pass of a restart,
\* k counted from 1; delta_prev is zero on the first pass of every restart,
\* which therefore applies the coefficient 1/4.
C8_MomentumFromOne ==
    (pc = "iter" /\ i > 1 /\ ValidMode) =>
        /\ MomentumUpdate(Rat(i - 1, i + 2))
        /\ i = 2 => (prev_delta = Zeros /\ MomentumUpdate(Rat(1, 4)))

C8_Witness ==
    /\ pc = "iter"
    /\ i = 2
    /\ s >= 1
    /\ ValidMode
    /\ delta # Zeros
    /\ IsFinite(delta[1])

\* ---------------------------------------------------------------------- C9
\* The objective at perturbation d, with the c every evaluation uses.
ObjectiveAt(d) ==
    OptimisationObj(classifier, autoencoder, mode, kappa, c_init, beta, gamma,
                    orig_sample, d, 1, 1).obj

\* C9: once an objective has been evaluated, the recorded best objective is
\* the objective of the recorded best perturbation.
C9_BestPairsOwnObjective ==
    (Called /\ ValidMode /\ Deterministic /\ best_delta # <<>>) =>
        best_loss = ObjectiveAt(best_delta)

\* --------------------------------------------------------------------- C10
\* The first restart of a deterministic classifier, recomputed: delta, y and
\* the last objective after k passes from zero with c = c_init.
RECURSIVE FirstRestart(_)
FirstRestart(k) ==
    IF k = 0
    THEN [ delta |-> Zeros, y |-> Zeros, obj |-> NaN ]
    ELSE Only({ Only({ [ delta |-> r.delta, y |-> r.y, obj |-> r.obj ] :
             r \in { InnerPass(classifier, autoencoder, mode, kappa, c_init, beta,
                               gamma, learning_rate, orig_sample, pert_space, k,
                               before.delta, before.y, 1, 1) } }) :
           before \in { FirstRestart(k - 1) } })

C10_State ==
    /\ (pc = "iter" /\ i <= iterations) => c = c_init
    /\ (pc = "iter" /\ ValidMode /\ Deterministic) =>
          \E first \in { FirstRestart(i - 1) } :
              /\ delta = first.delta
              /\ y = first.y
              /\ i > 1 => loss = first.obj

C10_Step ==
    (Deterministic /\ s >= 1 /\ pc \in { "search", "iter" }) =>
        (best_delta' = best_delta /\ best_loss' = best_loss)

\* C10: every objective evaluation of every restart uses c = c_init; with a
\* deterministic classifier every restart visits the delta, y and objective
\* values of the first restart, and the recorded best does not change once
\* the first restart has ended.
C10_RestartsRepeat == [](C10_State) /\ [][C10_Step]_vars

C10_Witness ==
    /\ pc = "iter"
    /\ s >= 1
    /\ i > iterations
    /\ Deterministic
    /\ c_after[1] # c_init
    /\ delta # Zeros
    /\ IsFinite(delta[1])

====
